---- MODULE Spec2Model ----
(***************************************************************************)
(* Model of the genre-similarity recommender of RecommendationSystem.py:   *)
(* the handler Movie.post of POST /movie/recommend/<target>.               *)
(*                                                                         *)
(* Strings are sequences of one-character strings, so that replace(),      *)
(* lower-casing and the tokenizer's regular expression act on characters.  *)
(* Rows of the DataFrame are numbered from 1 here (pandas numbers them     *)
(* from 0); a row's label is its position in the rate-ordered result set.  *)
(* Cosine similarities are kept exact, as the pair <<dot^2, |u|^2 |v|^2>>  *)
(* (the square of the cosine as a fraction); cosines of count vectors are  *)
(* never negative, so the squares order as the cosines do.                 *)
(***************************************************************************)
EXTENDS Integers, Sequences, FiniteSets, TLC

VARIABLES
  db,                    \* table movies, in ORDER BY movie_rate order
  pc,                    \* where the handler is
  target,                \* the path parameter
  movies,                \* the DataFrame
  genre_mat,             \* the count vectors
  genre_sim,             \* the cosine similarities, as fractions of squares
  genre_sim_sorted_ind,  \* per row, the row numbers by descending similarity
  title_index,           \* the row numbers whose title is the target
  similar_indexes,       \* the row numbers selected
  response,              \* the posters returned
  raised                 \* the exception that ended the request, if any

vars == <<db, pc, target, movies, genre_mat, genre_sim,
          genre_sim_sorted_ind, title_index, similar_indexes, response, raised>>

\* ------------------------------------------------------------------ bounds
\* Longest table whose rows are drawn freely from Rows.
MaxSmall == 3
\* Longest table of the second family: one row among copies of another.
MaxMovies == 17

\* Most rotations of the index order tried as the order of equal keys.
MaxShift == 2

Min(a, b) == IF a < b THEN a ELSE b
Max(a, b) == IF a < b THEN b ELSE a

\* The slice :(16) of line 46.
TopN == 16

\* ------------------------------------------------------------- characters
UpperChars ==
  <<"A","B","C","D","E","F","G","H","I","J","K","L","M",
    "N","O","P","Q","R","S","T","U","V","W","X","Y","Z">>

LowerChars ==
  <<"a","b","c","d","e","f","g","h","i","j","k","l","m",
    "n","o","p","q","r","s","t","u","v","w","x","y","z">>

Digits == {"0","1","2","3","4","5","6","7","8","9"}

Range(s) == {s[i] : i \in DOMAIN s}

\* \w of the token pattern: letters, digits and the underscore.
IsWordChar(c) == c \in Range(UpperChars) \cup Range(LowerChars) \cup Digits \cup {"_"}

\* str.lower() on one character.
LowerChar(c) ==
  IF c \in Range(UpperChars)
    THEN LowerChars[CHOOSE i \in DOMAIN UpperChars : UpperChars[i] = c]
    ELSE c

\* ------------------------------------------------------------ the inputs
sHorror == <<"H","o","r","r","o","r">>
sSciFi == <<"S","c","i","-","F","i">>
sAnimation == <<"A","n","i","m","a","t","i","o","n">>
sFamily == <<"F","a","m","i","l","y">>

\* movie_genres values as the table stores them.
gHorrorSciFi == sHorror \o <<",">> \o sSciFi
gHorror == sHorror
gAnimationFamily == sAnimation \o <<",">> \o sFamily
gHorrorSciFiSpaced == sHorror \o <<",", " ">> \o sSciFi
\* A blank genre field.
gNone == <<" ">>

Row(t, p, g) == [movie_title |-> t, movie_poster |-> p, movie_genres |-> g]

rAlien == Row("Alien", "p1", gHorrorSciFi)
rSaw == Row("Saw", "p2", gHorror)
rUp == Row("Up", "p3", gAnimationFamily)
rAlien2 == Row("Alien", "p4", gHorrorSciFiSpaced)
rNope == Row("Nope", "p5", gNone)
rIt == Row("It", "p6", gHorror)

Rows == {rAlien, rSaw, rUp, rAlien2, rNope, rIt}

\* Path parameters tried on a table: its titles and one that no row has.
Targets(table) == {table[i].movie_title : i \in DOMAIN table} \cup {"Missing"}

\* Tables of at most n rows of S, no row of S twice.
TablesUpTo(S, n) ==
  UNION {{t \in [1..k -> S] : \A i, j \in 1..k : i # j => t[i] # t[j]} : k \in 0..n}

\* Tables of more than TopN rows: row a first or last, copies of row b elsewhere.
LongTables ==
  UNION {{[i \in 1..n |-> IF i = p THEN a ELSE b] : p \in {1, n}, a \in Rows, b \in Rows} :
           n \in (TopN + 1)..MaxMovies}

\* The contents of table movies in ORDER BY movie_rate order.
Tables == TablesUpTo(Rows, MaxSmall) \cup LongTables

\* ----------------------------------------------------- CountVectorizer
\* x.replace(',', ''): every comma is deleted, nothing is put in its place.
genres_literal(x) == SelectSeq(x, LAMBDA c : c # ",")

\* The default preprocessor (lowercase=True).
preprocess(doc) == [i \in DOMAIN doc |-> LowerChar(doc[i])]

\* The maximal runs of word characters of s[i..], cur being the run in progress.
RECURSIVE WordRuns(_, _, _)
WordRuns(s, i, cur) ==
  IF i > Len(s) THEN (IF cur = <<>> THEN <<>> ELSE <<cur>>)
  ELSE IF IsWordChar(s[i]) THEN WordRuns(s, i + 1, Append(cur, s[i]))
  ELSE (IF cur = <<>> THEN <<>> ELSE <<cur>>) \o WordRuns(s, i + 1, <<>>)

\* findall of the default token_pattern (?u)\b\w\w+\b: runs of two or more.
tokenize(doc) == SelectSeq(WordRuns(doc, 1, <<>>), LAMBDA t : Len(t) >= 2)

\* ngram_range=(1,2): the tokens, then every pair of adjacent tokens in order.
word_ngrams(tokens) ==
  [i \in 1..Len(tokens) |-> <<tokens[i]>>]
    \o [i \in 1..(Len(tokens) - 1) |-> <<tokens[i], tokens[i + 1]>>]

analyze(doc) == word_ngrams(tokenize(preprocess(doc)))

\* The vocabulary fitted on the documents: min_df=0, where the library
\* accepts it (scikit-learn before 1.2), prunes nothing.
vocabulary(docs) == UNION {Range(analyze(docs[i])) : i \in DOMAIN docs}

\* fit_transform: one count vector over the vocabulary for every document.
fit_transform(docs) ==
  LET voc == vocabulary(docs)
  IN [i \in DOMAIN docs |->
        LET feats == analyze(docs[i])
        IN [f \in voc |-> Cardinality({k \in DOMAIN feats : feats[k] = f})]]

\* -------------------------------------------------- cosine_similarity
RECURSIVE DotOver(_, _, _)
DotOver(S, u, v) ==
  IF S = {} THEN 0
  ELSE LET f == CHOOSE x \in S : TRUE IN u[f] * v[f] + DotOver(S \ {f}, u, v)

Dot(u, v) == DotOver(DOMAIN u, u, v)

\* One entry of the matrix; a zero vector is left as it is by the
\* normalisation, so its similarity to everything is 0.
Cosine(u, v) ==
  LET nu == Dot(u, u)
      nv == Dot(v, v)
      d == Dot(u, v)
  IN IF nu = 0 \/ nv = 0 THEN <<0, 1>> ELSE <<d * d, nu * nv>>

cosine_similarity(X, Y) == [i \in DOMAIN X |-> [j \in DOMAIN Y |-> Cosine(X[i], Y[j])]]

SimLess(a, b) == a[1] * b[2] < b[1] * a[2]
SimEq(a, b) == a[1] * b[2] = b[1] * a[2]

\* ----------------------------------------------------------- argsort
\* The orders in which an unstable sort may leave equal keys: tie[j] is the
\* rank of index j among the indices whose keys are equal to its own.  The
\* index order (what a stable sort leaves), its first MaxShift rotations, and
\* the reversals of these.
TieOrders(n) ==
  UNION {{[j \in 1..n |-> ((j - 1 + r) % n)], [j \in 1..n |-> ((n - j + r) % n)]} :
           r \in 0..Min(n - 1, MaxShift)}

\* Whether index j sorts before index k: by value, equal values as tie gives.
Before(row, tie, j, k) ==
  SimLess(row[j], row[k]) \/ (SimEq(row[j], row[k]) /\ tie[j] < tie[k])

\* Index j put in its place in the ascending sequence s.
Insert(s, j, row, tie) ==
  LET at == Cardinality({q \in 1..Len(s) : Before(row, tie, s[q], j)})
  IN SubSeq(s, 1, at) \o <<j>> \o SubSeq(s, at + 1, Len(s))

RECURSIVE SortFrom(_, _, _, _)
SortFrom(row, tie, j, acc) ==
  IF j > Len(row) THEN acc ELSE SortFrom(row, tie, j + 1, Insert(acc, j, row, tie))

\* ndarray.argsort() of one row (default kind, quicksort): the indices in
\* ascending order of their values, equal values in the order tie gives.
argsort(row, tie) == SortFrom(row, tie, 1, <<>>)

\* The row left in ascending order: the reversal forgotten.
NotReversed(s) == s

\* [::-1] on a row.
Reverse(s) == [p \in 1..Len(s) |-> s[Len(s) + 1 - p]]

\* genre_sim.argsort()[:, ::-1]
sorted_ind(sim, tie) == [i \in DOMAIN sim |-> Reverse(argsort(sim[i], tie))]

\* ------------------------------------------------------- the selection
\* movies[movies['movie_title'] == target].index.values
TitleIndex(mv, t) ==
  SelectSeq([i \in 1..Len(mv) |-> i], LAMBDA i : mv[i].movie_title = t)

\* The slice taken one long: only the best-ranked index.
HeadOne(row) == SubSeq(row, 1, Min(1, Len(row)))

\* row[:(16)]
Head16(row) == SubSeq(row, 1, Min(TopN, Len(row)))

\* reshape(-1) of a two-dimensional array given as its rows.
RECURSIVE Reshape(_)
Reshape(rows) == IF rows = <<>> THEN <<>> ELSE Head(rows) \o Reshape(Tail(rows))

\* genre_sim_sorted_ind[title_index, :(16)].reshape(-1)
TopOf(sorted, ti) == Reshape([k \in 1..Len(ti) |-> Head16(sorted[ti[k]])])

\* Two one-dimensional shapes broadcast when they are equal or one of them is 1.
Broadcasts(a, b) == a = b \/ a = 1 \/ b = 1

\* The comparison true everywhere, as against a value no index equals.
NotEqualAnything(x, y) == [k \in 1..Max(Len(x), Len(y)) |-> TRUE]

\* x != y of two one-dimensional arrays whose shapes broadcast.
NotEqual(x, y) ==
  [k \in 1..Max(Len(x), Len(y)) |->
     x[IF Len(x) = 1 THEN 1 ELSE k] # y[IF Len(y) = 1 THEN 1 ELSE k]]

\* The mask ignored: every element kept.
KeepAll(x, mask) == x

\* x[mask] with a boolean mask as long as x.
BoolIndex(x, mask) ==
  LET keep == SelectSeq([k \in 1..Len(x) |-> k], LAMBDA k : mask[k])
  IN [k \in 1..Len(keep) |-> x[keep[k]]]

\* movies.iloc[similar_indexes][['movie_poster']]
Posters(mv, idx) == [k \in 1..Len(idx) |-> mv[idx[k]].movie_poster]

\* ------------------------------------------------------------- actions
Init ==
  /\ db \in Tables
  /\ pc = "idle"
  /\ target = ""
  /\ movies = <<>>
  /\ genre_mat = <<>>
  /\ genre_sim = <<>>
  /\ genre_sim_sorted_ind = <<>>
  /\ title_index = <<>>
  /\ similar_indexes = <<>>
  /\ response = <<>>
  /\ raised = "none"

\* Lines 26-34: a request arrives and the table is read into the DataFrame.
Request(t) ==
  /\ pc = "idle"
  /\ target' = t
  /\ movies' = db
  /\ pc' = "fetched"
  /\ UNCHANGED <<db, genre_mat, genre_sim, genre_sim_sorted_ind, title_index,
                 similar_indexes, response, raised>>

\* Lines 36-39: fit_transform raises ValueError on an empty vocabulary.
Vectorize ==
  /\ pc = "fetched"
  /\ LET docs == [i \in 1..Len(movies) |-> genres_literal(movies[i].movie_genres)]
     IN IF vocabulary(docs) = {}
          THEN /\ pc' = "error"
               /\ raised' = "ValueError"
               /\ UNCHANGED genre_mat
          ELSE /\ pc' = "vectorized"
               /\ genre_mat' = fit_transform(docs)
               /\ UNCHANGED raised
  /\ UNCHANGED <<db, target, movies, genre_sim, genre_sim_sorted_ind, title_index,
                 similar_indexes, response>>

\* Line 40: the full pairwise similarity matrix.
Similarity ==
  /\ pc = "vectorized"
  /\ genre_sim' = cosine_similarity(genre_mat, genre_mat)
  /\ pc' = "compared"
  /\ UNCHANGED <<db, target, movies, genre_mat, genre_sim_sorted_ind, title_index,
                 similar_indexes, response, raised>>

\* Line 41: every row's indices by descending similarity.
Rank ==
  /\ pc = "compared"
  /\ \E tie \in TieOrders(Len(movies)) :
       genre_sim_sorted_ind' = sorted_ind(genre_sim, tie)
  /\ pc' = "ranked"
  /\ UNCHANGED <<db, target, movies, genre_mat, genre_sim, title_index,
                 similar_indexes, response, raised>>

\* Lines 43-50: the target's rows, their first 16 neighbours, flattened, and
\* the removal of the target's own row number; the comparison of line 50
\* raises ValueError when the two shapes do not broadcast.
Select ==
  /\ pc = "ranked"
  /\ LET ti == TitleIndex(movies, target)
         top == TopOf(genre_sim_sorted_ind, ti)
     IN /\ title_index' = ti
        /\ IF Broadcasts(Len(top), Len(ti))
             THEN /\ similar_indexes' = BoolIndex(top, NotEqual(top, ti))
                  /\ pc' = "selected"
                  /\ UNCHANGED raised
             ELSE /\ similar_indexes' = top
                  /\ pc' = "error"
                  /\ raised' = "ValueError"
  /\ UNCHANGED <<db, target, movies, genre_mat, genre_sim, genre_sim_sorted_ind,
                 response>>

\* Lines 52-56: the posters of the selected rows, in the order selected.
Respond ==
  /\ pc = "selected"
  /\ response' = Posters(movies, similar_indexes)
  /\ pc' = "done"
  /\ UNCHANGED <<db, target, movies, genre_mat, genre_sim, genre_sim_sorted_ind,
                 title_index, similar_indexes, raised>>

\* The request is over; nothing but the table outlives it.
Finish ==
  /\ pc \in {"done", "error"}
  /\ pc' = "idle"
  /\ target' = ""
  /\ movies' = <<>>
  /\ genre_mat' = <<>>
  /\ genre_sim' = <<>>
  /\ genre_sim_sorted_ind' = <<>>
  /\ title_index' = <<>>
  /\ similar_indexes' = <<>>
  /\ response' = <<>>
  /\ raised' = "none"
  /\ UNCHANGED db

Next ==
  \/ \E t \in Targets(db) : Request(t)
  \/ Vectorize
  \/ Similarity
  \/ Rank
  \/ Select
  \/ Respond
  \/ Finish

Spec == Init /\ [][Next]_vars

\* ------------------------------------------------ the contract's notions
\* The k of the contract: the 16 of line 46 less the target itself.
K == TopN - 1

Ended == pc \in {"done", "error"}

\* The rows whose title is the target, whether or not line 43 was reached.
Matches == TitleIndex(movies, target)

\* The pieces of s[i..] between commas, cur being the piece in progress.
RECURSIVE SplitComma(_, _, _)
SplitComma(s, i, cur) ==
  IF i > Len(s) THEN <<cur>>
  ELSE IF s[i] = "," THEN <<cur>> \o SplitComma(s, i + 1, <<>>)
  ELSE SplitComma(s, i + 1, Append(cur, s[i]))

\* The genre tags of a movie_genres value: its comma-separated pieces, blanks
\* dropped, the empty piece not counted.
GenreTags(g) ==
  {SelectSeq(piece, LAMBDA c : c # " ") : piece \in Range(SplitComma(g, 1, <<>>))} \ {<<>>}

AllTagged == \A i \in DOMAIN movies : GenreTags(movies[i].movie_genres) # {}

\* The count vector of row i is all-zero exactly when its document has no feature.
ZeroVector(i) == analyze(genres_literal(movies[i].movie_genres)) = <<>>

\* ---------------------------------------------------------------- claims

\* C1 (bounded size): when the target title occurs exactly once and every
\* movie has genre tags, the response has at most k = 15 posters.
BoundedSize ==
  (pc = "done" /\ Len(Matches) = 1 /\ AllTagged) => Len(response) <= K

\* C2 (self-exclusion): when the target title occurs exactly once, the row
\* number of the target is not among the returned row numbers, whose posters
\* the response lists in order.
SelfExclusion ==
  (pc = "done" /\ Len(title_index) = 1) =>
    /\ response = Posters(movies, similar_indexes)
    /\ \A k \in DOMAIN similar_indexes : similar_indexes[k] # title_index[1]

\* C2 witness: the target was among its own first 16 and was taken out.
SelfExclusionWitness ==
  /\ pc = "done"
  /\ Len(title_index) = 1
  /\ Len(movies) >= 2
  /\ Len(response) = Min(TopN, Len(movies)) - 1

\* C3 (similarity monotonicity): when the target title occurs exactly once,
\* no returned row is strictly more similar to the target than a row returned
\* before it.
SimilarityMonotone ==
  (pc = "done" /\ Len(title_index) = 1) =>
    \A i, j \in DOMAIN similar_indexes :
      i < j => ~SimLess(genre_sim[title_index[1]][similar_indexes[i]],
                        genre_sim[title_index[1]][similar_indexes[j]])

\* C3 witness: a response whose first row is strictly more similar to the
\* target than its last.
SimilarityMonotoneWitness ==
  /\ pc = "done"
  /\ Len(title_index) = 1
  /\ Len(similar_indexes) >= 2
  /\ SimLess(genre_sim[title_index[1]][similar_indexes[Len(similar_indexes)]],
             genre_sim[title_index[1]][similar_indexes[1]])

\* C4 (empty on absence): on a table that is not empty, a target that is no
\* row's title gets the empty response and no error.
EmptyOnAbsence ==
  (Ended /\ Len(movies) >= 1 /\ Len(Matches) = 0) =>
    (pc = "done" /\ raised = "none" /\ response = <<>>)

\* C5 (shared-genre scenario): on the table Alien, Saw, Up the target Alien
\* gets p2 and p3, p2 ahead of p3.
SharedGenreScenario ==
  (pc = "done" /\ movies = <<rAlien, rSaw, rUp>> /\ target = "Alien") =>
    \E i, j \in DOMAIN response : i < j /\ response[i] = "p2" /\ response[j] = "p3"

NonEmptyResult ==
  (Ended /\ Len(Matches) = 1 /\ Len(movies) >= 2 /\ ~ZeroVector(Matches[1])) =>
    (pc = "done" /\ Len(response) >= 1)

\* C7 witness: a table of two movies, the target's vector not zero, one poster
\* returned.
NonEmptyResultWitness ==
  /\ pc = "done"
  /\ Len(title_index) = 1
  /\ Len(movies) = 2
  /\ ~ZeroVector(title_index[1])
  /\ Len(response) = 1

\* C8 (degenerate input): on an empty table, or when every movie's count
\* vector is all-zero, every target gets the empty response and no error.
DegenerateEmpty ==
  (Ended /\ \A i \in DOMAIN movies : ZeroVector(i)) =>
    (pc = "done" /\ raised = "none" /\ response = <<>>)

\* C9 (feature encoding): two movies that share a genre tag have cosine
\* similarity strictly greater than 0.
SharedTagSimilar ==
  pc \in {"compared", "ranked", "selected", "done"} =>
    \A i, j \in DOMAIN movies :
      GenreTags(movies[i].movie_genres) \cap GenreTags(movies[j].movie_genres) # {}
        => genre_sim[i][j][1] > 0

\* C10 (ambiguous target): when the target title occurs m >= 2 times in a
\* table whose movies all have genre tags, no error is raised and the rows
\* returned are the first 16 neighbours of every matching row, in order, each
\* row's own number taken out: at most k per matching row.
AmbiguousTarget ==
  (Ended /\ Len(Matches) >= 2 /\ AllTagged) =>
    /\ pc = "done"
    /\ raised = "none"
    /\ similar_indexes =
         Reshape([k \in 1..Len(Matches) |->
                    SelectSeq(Head16(genre_sim_sorted_ind[Matches[k]]),
                              LAMBDA x : x # Matches[k])])
    /\ Len(response) <= K * Len(Matches)

====
